---------------------------- MODULE Spec2Model ----------------------------
(***************************************************************************)
(* Order lifecycle guard and access control of the laundry marketplace    *)
(* API.  The database tables (users, laundries, orders, activities) are    *)
(* the shared state; every request handler is a process whose steps are    *)
(* the database calls it awaits, so that concurrent requests interleave    *)
(* between those calls exactly as the handlers do.                         *)
(***************************************************************************)
EXTENDS Integers, Sequences, FiniteSets, TLC

None == "None"

(***************************************************************************)
(* Enumerations of the schema.                                             *)
(***************************************************************************)
OrderStatus ==
  {"PENDING", "CONFIRMED", "IN_PROGRESS", "READY_FOR_PICKUP", "OUT_FOR_DELIVERY",
   "DELIVERED", "COMPLETED", "CANCELED", "REFUNDED"}

UserRole == {"CUSTOMER", "ADMIN", "SUPER_ADMIN", "DELIVERY_GUY"}

LaundryStatus == {"ACTIVE", "INACTIVE", "SUSPENDED"}

\* The statuses updateOrderSchema accepts in a PATCH body (no REFUNDED).
updateOrderSchemaStatus ==
  {"PENDING", "CONFIRMED", "IN_PROGRESS", "READY_FOR_PICKUP", "OUT_FOR_DELIVERY",
   "DELIVERED", "COMPLETED", "CANCELED"}

\* The statuses the laundryId-query variant of PATCH accepts.
validStatuses ==
  {"PENDING", "CONFIRMED", "IN_PROGRESS", "READY_FOR_PICKUP", "OUT_FOR_DELIVERY",
   "DELIVERED", "COMPLETED", "CANCELED"}

(***************************************************************************)
(* The rows of the database the model is run on.                           *)
(***************************************************************************)
UserIds == {"sa", "a1", "a2", "c1", "c2"}
LaundryIds == {"L1", "L2"}
OrderIds == {"o1", "o2"}
\* An order id no row has.
MissingOrder == "o9"
MissingLaundry == "L9"
\* A request without an Authorization header.
NoToken == "NoToken"

Reqs == {"r1", "r2"}

VARIABLES
  users,       \* users table: id -> [role, email, password, suspendedAt, suspensionReason]
  laundries,   \* laundries table: id -> [status, adminId]
  orders,      \* orders table: id -> [status, notes, pickupDate, deliveryDate, customerId, laundryId]
  activities,  \* activities table, in insertion order
  reqs,        \* the requests in flight: slot -> the handler's locals and position
  started      \* number of requests received so far

vars == <<users, laundries, orders, activities, reqs, started>>


(***************************************************************************)
(* lib/auth-middleware.ts                                                  *)
(***************************************************************************)
NoUser == [sub |-> None, email |-> None, role |-> None, laundryId |-> None]

AuthFail(code, msg) ==
  [ok |-> FALSE, code |-> code, msg |-> msg, reason |-> None, user |-> NoUser]
AuthOk(user) == [ok |-> TRUE, code |-> 200, msg |-> "ok", reason |-> None, user |-> user]

\* What a request can carry in place of a verifiable token: an Authorization
\* header that does not start with "Bearer ", a header with nothing after
\* "Bearer ", tokens jwtVerify throws on (wrong signature, past expiry), and a
\* verifiable token whose payload has no subject.
NotBearer == "NotBearer"
EmptyToken == "EmptyToken"
BadSignature == "BadSignature"
ExpiredToken == "ExpiredToken"
NoSubject == "NoSubject"
\* A verifiable token whose subject has no row in users.
DeletedUser == "gone"

\* The role claim a token was signed with: the role its user had at sign-in.
IssuedRole(tok) ==
  CASE tok = "sa" -> "SUPER_ADMIN"
    [] tok \in {"a1", "a2", "a3"} -> "ADMIN"
    [] tok = "d1" -> "DELIVERY_GUY"
    [] OTHER -> "CUSTOMER"

\* The email claim a token was signed with: the email its user had at sign-in.
IssuedEmail(tok) ==
  CASE tok = "sa" -> "sa@mail"
    [] tok = "a1" -> "a1@mail"
    [] tok = "a2" -> "a2@mail"
    [] tok = "a3" -> "a3@mail"
    [] tok = "c1" -> "c1@mail"
    [] tok = "c2" -> "c2@mail"
    [] tok = "c3" -> "c3@mail"
    [] tok = "d1" -> "d1@mail"
    [] OTHER -> "gone@mail"

\* jwtVerify(token, secret).payload of a verifiable token.
payload(tok) ==
  [sub |-> IF tok = NoSubject THEN None ELSE tok, email |-> IssuedEmail(tok),
   role |-> IssuedRole(tok)]

\* user.laundry?.id : the laundry whose adminId is the user (adminId is unique).
LaundryOf(u) ==
  IF \E l \in DOMAIN laundries : laundries[l].adminId = u
    THEN CHOOSE l \in DOMAIN laundries : laundries[l].adminId = u
    ELSE None

DefaultSuspensionReason == "Account temporarily suspended"

\* authenticateUser of lib/validations.ts: the principal is the token's payload.
authenticateUser_bearer(tok) ==
  IF tok \in {NoToken, NotBearer} THEN AuthFail(401, "Authorization header required")
  ELSE IF tok = EmptyToken THEN AuthFail(401, "Authentication token required")
  ELSE IF tok \in {BadSignature, ExpiredToken} THEN AuthFail(401, "Invalid or expired token")
  ELSE AuthOk([sub |-> payload(tok).sub, email |-> payload(tok).email,
               role |-> payload(tok).role, laundryId |-> None])
\* authenticateUser without the check of suspendedAt.
authenticateUser_NoSuspensionCheck(tok) ==
  IF tok \in {NoToken, NotBearer} THEN AuthFail(401, "Authorization header required")
  ELSE IF tok = EmptyToken THEN AuthFail(401, "Authentication token required")
  ELSE IF tok \in {BadSignature, ExpiredToken} THEN AuthFail(401, "Invalid or expired token")
  ELSE IF payload(tok).sub = None THEN AuthFail(401, "Invalid or expired token")
  ELSE IF payload(tok).sub \notin DOMAIN users THEN AuthFail(401, "User not found")
  ELSE AuthOk([sub |-> payload(tok).sub, email |-> users[payload(tok).sub].email,
               role |-> users[payload(tok).sub].role,
               laundryId |-> LaundryOf(payload(tok).sub)])

\* authenticateUser: the principal is assembled from the live user row.
authenticateUser(tok) ==
  IF tok \in {NoToken, NotBearer} THEN AuthFail(401, "Authorization header required")
  ELSE IF tok = EmptyToken THEN AuthFail(401, "Authentication token required")
  ELSE IF tok \in {BadSignature, ExpiredToken} THEN AuthFail(401, "Invalid or expired token")
  \* user.findUnique throws on an undefined id, and the catch answers for it.
  ELSE IF payload(tok).sub = None THEN AuthFail(401, "Invalid or expired token")
  ELSE IF payload(tok).sub \notin DOMAIN users THEN AuthFail(401, "User not found")
  ELSE IF users[payload(tok).sub].suspendedAt
    THEN [AuthFail(403, "Account suspended") EXCEPT
            !.reason = IF users[payload(tok).sub].suspensionReason = None
                         THEN DefaultSuspensionReason
                         ELSE users[payload(tok).sub].suspensionReason]
  ELSE AuthOk([sub |-> payload(tok).sub, email |-> users[payload(tok).sub].email,
               role |-> users[payload(tok).sub].role,
               laundryId |-> LaundryOf(payload(tok).sub)])

\* The values an option of requireRole takes: true, false, or left out.
Options == {"true", "false", None}

\* requireRole with the SUPER_ADMIN override taken only when allowSuperAdmin is given as true.
requireRole_OverrideOnlyWhenGiven(tok, allowedRoles, requireLaundry, allowSuperAdmin) ==
  LET authResult == authenticateUser(tok)
      user == authResult.user
  IN  IF ~authResult.ok THEN authResult
      ELSE IF user.role = "SUPER_ADMIN" /\ allowSuperAdmin = "true" THEN AuthOk(user)
      ELSE IF user.role \notin allowedRoles THEN AuthFail(403, "Insufficient permissions")
      ELSE IF requireLaundry = "true" /\ user.role = "ADMIN" /\ user.laundryId = None
        THEN AuthFail(403, "Admin must be associated with a laundry")
      ELSE AuthOk(user)
\* requireRole with the SUPER_ADMIN override taken whatever allowSuperAdmin is.
requireRole_AlwaysOverride(tok, allowedRoles, requireLaundry, allowSuperAdmin) ==
  LET authResult == authenticateUser(tok)
      user == authResult.user
  IN  IF ~authResult.ok THEN authResult
      ELSE IF user.role = "SUPER_ADMIN" THEN AuthOk(user)
      ELSE IF user.role \notin allowedRoles THEN AuthFail(403, "Insufficient permissions")
      ELSE IF requireLaundry = "true" /\ user.role = "ADMIN" /\ user.laundryId = None
        THEN AuthFail(403, "Admin must be associated with a laundry")
      ELSE AuthOk(user)
\* requireRole without the check of the admin's laundry.
requireRole_NoLaundryCheck(tok, allowedRoles, requireLaundry, allowSuperAdmin) ==
  LET authResult == authenticateUser(tok)
      user == authResult.user
  IN  IF ~authResult.ok THEN authResult
      ELSE IF user.role = "SUPER_ADMIN" /\ allowSuperAdmin # "false" THEN AuthOk(user)
      ELSE IF user.role \notin allowedRoles THEN AuthFail(403, "Insufficient permissions")
      ELSE AuthOk(user)

\* requireRole(request, allowedRoles, {requireLaundry, allowSuperAdmin}).
requireRole(tok, allowedRoles, requireLaundry, allowSuperAdmin) ==
  LET authResult == authenticateUser(tok)
      user == authResult.user
  IN  IF ~authResult.ok THEN authResult
      ELSE IF user.role = "SUPER_ADMIN" /\ allowSuperAdmin # "false" THEN AuthOk(user)
      ELSE IF user.role \notin allowedRoles THEN AuthFail(403, "Insufficient permissions")
      ELSE IF requireLaundry = "true" /\ user.role = "ADMIN" /\ user.laundryId = None
        THEN AuthFail(403, "Admin must be associated with a laundry")
      ELSE AuthOk(user)

\* requireRole of lib/validations.ts: no options, no SUPER_ADMIN override.
requireRole_bearer(tok, allowedRoles) ==
  LET authResult == authenticateUser_bearer(tok)
  IN  IF ~authResult.ok THEN authResult
      ELSE IF authResult.user.role \notin allowedRoles
        THEN AuthFail(403, "Insufficient permissions")
      ELSE AuthOk(authResult.user)
\* requireOrderAccess without the comparison of the order's laundry with the admin's.
requireOrderAccess_NoTenantCheck(tok, orderId) ==
  LET authResult == requireRole(tok, {"CUSTOMER", "ADMIN", "SUPER_ADMIN"}, None, None)
      user == authResult.user
  IN  IF ~authResult.ok THEN authResult
      ELSE IF user.role = "SUPER_ADMIN" THEN AuthOk(user)
      ELSE IF orderId \notin DOMAIN orders THEN AuthFail(404, "Order not found")
      ELSE IF user.role = "CUSTOMER" /\ orders[orderId].customerId # user.sub
        THEN AuthFail(403, "Access denied: You can only access your own orders")
      ELSE AuthOk(user)

\* requireOrderAccess(request, orderId).
requireOrderAccess(tok, orderId) ==
  LET authResult == requireRole(tok, {"CUSTOMER", "ADMIN", "SUPER_ADMIN"}, None, None)
      user == authResult.user
  IN  IF ~authResult.ok THEN authResult
      ELSE IF user.role = "SUPER_ADMIN" THEN AuthOk(user)
      ELSE IF orderId \notin DOMAIN orders THEN AuthFail(404, "Order not found")
      ELSE IF user.role = "CUSTOMER" /\ orders[orderId].customerId # user.sub
        THEN AuthFail(403, "Access denied: You can only access your own orders")
      ELSE IF user.role = "ADMIN" /\ orders[orderId].laundryId # user.laundryId
        THEN AuthFail(403, "Access denied: Order not associated with your laundry")
      ELSE AuthOk(user)

\* The rows user.findUnique({include: {orders: {take: 1}}}) can return as
\* orders[0]: the query gives no order, so any order of the user can come first.
FirstOrders(userId) ==
  IF \E o \in DOMAIN orders : orders[o].customerId = userId
    THEN {o \in DOMAIN orders : orders[o].customerId = userId}
    ELSE {None}

\* requireCustomerOwnership(request, resourceUserId); first is the order the
\* lookup returned as orders[0], None when it returned none.
requireCustomerOwnership(tok, resourceUserId, first) ==
  LET authResult == requireRole(tok, {"CUSTOMER", "ADMIN", "SUPER_ADMIN"}, None, None)
      user == authResult.user
  IN  IF ~authResult.ok THEN authResult
      ELSE IF user.role = "SUPER_ADMIN" THEN AuthOk(user)
      ELSE IF user.role = "CUSTOMER" /\ user.sub # resourceUserId
        THEN AuthFail(403, "Access denied: You can only access your own resources")
      ELSE IF user.role = "ADMIN" /\ resourceUserId \notin DOMAIN users
        THEN AuthFail(404, "Customer not found")
      ELSE IF user.role = "ADMIN" /\ first # None /\ orders[first].laundryId # user.laundryId
        THEN AuthFail(403, "Access denied: Customer not associated with your laundry")
      ELSE AuthOk(user)
\* requireLaundryAccess that lets every admin with a laundry through.
requireLaundryAccess_AnyLaundry(tok, laundryId) ==
  LET authResult == requireRole(tok, {"ADMIN", "SUPER_ADMIN"}, None, None)
      user == authResult.user
  IN  IF ~authResult.ok THEN authResult
      ELSE IF user.role = "SUPER_ADMIN" THEN AuthOk(user)
      ELSE IF user.role = "ADMIN" /\ user.laundryId = None
        THEN AuthFail(403, "Access denied: You can only access your own laundry")
      ELSE AuthOk(user)

\* requireLaundryAccess(request, laundryId).
requireLaundryAccess(tok, laundryId) ==
  LET authResult == requireRole(tok, {"ADMIN", "SUPER_ADMIN"}, None, None)
      user == authResult.user
  IN  IF ~authResult.ok THEN authResult
      ELSE IF user.role = "SUPER_ADMIN" THEN AuthOk(user)
      ELSE IF user.role = "ADMIN" /\ user.laundryId # laundryId
        THEN AuthFail(403, "Access denied: You can only access your own laundry")
      ELSE AuthOk(user)

(***************************************************************************)
(* The locals of a request handler.                                        *)
(***************************************************************************)
NoBody == [status |-> None, notes |-> None, pickupDate |-> None, deliveryDate |-> None]

Idle ==
  [pc |-> "idle", kind |-> None, tok |-> None, target |-> None, laundryId |-> None,
   user |-> NoUser, body |-> NoBody, cur |-> None, curNotes |-> None,
   allowedRoles |-> {}, requireLaundry |-> None, allowSuperAdmin |-> None,
   first |-> None, code |-> 0, msg |-> None, reason |-> None]

\* The handler returns a response: its locals stay readable until the slot is reused.
Respond(r, code, msg) ==
  reqs' = [reqs EXCEPT ![r].pc = "done", ![r].code = code, ![r].msg = msg]

(***************************************************************************)
(* PATCH /api/admin/orders/[orderId], the guarded handler.                 *)
(***************************************************************************)
\* validTransitions with CANCELED added to the row of DELIVERED.
validTransitions_CancelDelivered(status) ==
  CASE status = "PENDING" -> {"CONFIRMED", "CANCELED"}
    [] status = "CONFIRMED" -> {"IN_PROGRESS", "CANCELED"}
    [] status = "IN_PROGRESS" -> {"READY_FOR_PICKUP", "CANCELED"}
    [] status = "READY_FOR_PICKUP" -> {"OUT_FOR_DELIVERY", "CANCELED"}
    [] status = "OUT_FOR_DELIVERY" -> {"DELIVERED", "CANCELED"}
    [] status = "DELIVERED" -> {"COMPLETED", "CANCELED"}
    [] OTHER -> {}

\* validTransitions with CANCELED left out of the row of OUT_FOR_DELIVERY.
validTransitions_NoLateCancel(status) ==
  CASE status = "PENDING" -> {"CONFIRMED", "CANCELED"}
    [] status = "CONFIRMED" -> {"IN_PROGRESS", "CANCELED"}
    [] status = "IN_PROGRESS" -> {"READY_FOR_PICKUP", "CANCELED"}
    [] status = "READY_FOR_PICKUP" -> {"OUT_FOR_DELIVERY", "CANCELED"}
    [] status = "OUT_FOR_DELIVERY" -> {"DELIVERED"}
    [] status = "DELIVERED" -> {"COMPLETED"}
    [] OTHER -> {}

\* validTransitions where a status without a row allows every status
\* (the lookup without its "|| []" and a check that skips a missing row).
validTransitions_NoDefault(status) ==
  CASE status = "PENDING" -> {"CONFIRMED", "CANCELED"}
    [] status = "CONFIRMED" -> {"IN_PROGRESS", "CANCELED"}
    [] status = "IN_PROGRESS" -> {"READY_FOR_PICKUP", "CANCELED"}
    [] status = "READY_FOR_PICKUP" -> {"OUT_FOR_DELIVERY", "CANCELED"}
    [] status = "OUT_FOR_DELIVERY" -> {"DELIVERED", "CANCELED"}
    [] status = "DELIVERED" -> {"COMPLETED"}
    [] status = "COMPLETED" -> {}
    [] status = "CANCELED" -> {}
    [] OTHER -> OrderStatus
\* validTransitions whose row of CANCELED reopens the order.
validTransitions_Reopen(status) ==
  CASE status = "PENDING" -> {"CONFIRMED", "CANCELED"}
    [] status = "CONFIRMED" -> {"IN_PROGRESS", "CANCELED"}
    [] status = "IN_PROGRESS" -> {"READY_FOR_PICKUP", "CANCELED"}
    [] status = "READY_FOR_PICKUP" -> {"OUT_FOR_DELIVERY", "CANCELED"}
    [] status = "OUT_FOR_DELIVERY" -> {"DELIVERED", "CANCELED"}
    [] status = "DELIVERED" -> {"COMPLETED"}
    [] status = "COMPLETED" -> {}
    [] status = "CANCELED" -> {"PENDING"}
    [] OTHER -> {}

\* validTransitions[currentOrder.status] || []
validTransitions(status) ==
  CASE status = "PENDING" -> {"CONFIRMED", "CANCELED"}
    [] status = "CONFIRMED" -> {"IN_PROGRESS", "CANCELED"}
    [] status = "IN_PROGRESS" -> {"READY_FOR_PICKUP", "CANCELED"}
    [] status = "READY_FOR_PICKUP" -> {"OUT_FOR_DELIVERY", "CANCELED"}
    [] status = "OUT_FOR_DELIVERY" -> {"DELIVERED", "CANCELED"}
    [] status = "DELIVERED" -> {"COMPLETED"}
    [] status = "COMPLETED" -> {}
    [] status = "CANCELED" -> {}
    [] OTHER -> {}

\* updateData.status && updateData.status !== currentOrder.status
IsStatusChange(body, current) == body.status # None /\ body.status # current

\* The guard: the requested change is no change, or an edge of the map.
TransitionAllowed(body, current) ==
  IsStatusChange(body, current) => body.status \in validTransitions(current)

\* updateOrderSchema.safeParse(body).success
updateOrderSchemaParses(body) ==
  body.status = None \/ body.status \in updateOrderSchemaStatus
\* PatchAuth that goes on to the body whatever requireOrderAccess returned.
PatchAuth_IgnoresFailure(r, tok, orderId) ==
  /\ reqs[r].pc = "idle"
  /\ started' = started + 1
  /\ LET authResult == requireOrderAccess(tok, orderId)
         q == [Idle EXCEPT !.kind = "patch", !.tok = tok, !.target = orderId]
     IN  reqs' = [reqs EXCEPT ![r] = [q EXCEPT !.pc = "parse", !.user = authResult.user]]
  /\ UNCHANGED <<users, laundries, orders, activities>>

\* requireOrderAccess, then return its failure or go on with its user.
PatchAuth(r, tok, orderId) ==
  /\ reqs[r].pc = "idle"
  /\ started' = started + 1
  /\ LET authResult == requireOrderAccess(tok, orderId)
         q == [Idle EXCEPT !.kind = "patch", !.tok = tok, !.target = orderId]
     IN  IF ~authResult.ok
           THEN reqs' = [reqs EXCEPT ![r] =
                  [q EXCEPT !.pc = "done", !.code = authResult.code, !.msg = authResult.msg]]
           ELSE reqs' = [reqs EXCEPT ![r] = [q EXCEPT !.pc = "parse", !.user = authResult.user]]
  /\ UNCHANGED <<users, laundries, orders, activities>>

\* prisma.order.update({data: finalUpdateData}): the fields the body defines.
ApplyUpdateData(order, body) ==
  [order EXCEPT
     !.status = IF body.status # None THEN body.status ELSE @,
     !.notes = IF body.notes # None THEN body.notes ELSE @,
     !.pickupDate = IF body.pickupDate # None THEN body.pickupDate ELSE @,
     !.deliveryDate = IF body.deliveryDate # None THEN body.deliveryDate ELSE @]

\* PatchRead that persists the other fields of the body before it checks the
\* transition.
PatchRead_WriteFirst(r, body) ==
  /\ reqs[r].pc = "parse"
  /\ reqs[r].kind = "patch"
  /\ LET orderId == reqs[r].target
     IN  IF ~updateOrderSchemaParses(body)
           THEN /\ reqs' = [reqs EXCEPT ![r].pc = "done", ![r].body = body,
                                        ![r].code = 400, ![r].msg = "Validation error"]
                /\ UNCHANGED orders
         ELSE IF orderId \notin DOMAIN orders
           THEN /\ reqs' = [reqs EXCEPT ![r].pc = "done", ![r].body = body,
                                        ![r].code = 404, ![r].msg = "Order not found"]
                /\ UNCHANGED orders
         ELSE IF ~TransitionAllowed(body, orders[orderId].status)
           THEN /\ reqs' = [reqs EXCEPT ![r].pc = "done", ![r].body = body,
                                        ![r].cur = orders[orderId].status,
                                        ![r].code = 400, ![r].msg = "Invalid status transition"]
                /\ orders' = [orders EXCEPT ![orderId] =
                                ApplyUpdateData(@, [body EXCEPT !.status = None])]
         ELSE /\ reqs' = [reqs EXCEPT ![r].pc = "update", ![r].body = body,
                                      ![r].cur = orders[orderId].status]
              /\ UNCHANGED orders
  /\ UNCHANGED <<users, laundries, activities, started>>

\* request.json(), safeParse, order.findUnique and the transition check.
PatchRead(r, body) ==
  /\ reqs[r].pc = "parse"
  /\ reqs[r].kind = "patch"
  /\ LET orderId == reqs[r].target
     IN  IF ~updateOrderSchemaParses(body)
           THEN reqs' = [reqs EXCEPT ![r].pc = "done", ![r].body = body,
                                     ![r].code = 400, ![r].msg = "Validation error"]
         ELSE IF orderId \notin DOMAIN orders
           THEN reqs' = [reqs EXCEPT ![r].pc = "done", ![r].body = body,
                                     ![r].code = 404, ![r].msg = "Order not found"]
         ELSE IF ~TransitionAllowed(body, orders[orderId].status)
           THEN reqs' = [reqs EXCEPT ![r].pc = "done", ![r].body = body,
                                     ![r].cur = orders[orderId].status,
                                     ![r].code = 400, ![r].msg = "Invalid status transition"]
         ELSE reqs' = [reqs EXCEPT ![r].pc = "update", ![r].body = body,
                                   ![r].cur = orders[orderId].status]
  /\ UNCHANGED <<users, laundries, orders, activities, started>>

PatchUpdate(r) ==
  /\ reqs[r].pc = "update"
  /\ reqs[r].kind = "patch"
  /\ LET q == reqs[r]
     IN  /\ orders' = [orders EXCEPT ![q.target] = ApplyUpdateData(@, q.body)]
         /\ IF IsStatusChange(q.body, q.cur)
              THEN reqs' = [reqs EXCEPT ![r].pc = "audit"]
              ELSE Respond(r, 200, "Order updated successfully")
  /\ UNCHANGED <<users, laundries, activities, started>>

\* StatusActivity that records the previous status from the request body.
StatusActivity_PrevFromBody(q) ==
  [type |-> "ORDER_UPDATED", orderId |-> q.target, userId |-> q.user.sub,
   laundryId |-> None, previousStatus |-> q.body.status, newStatus |-> q.body.status]

\* The activity the guarded handler creates for a status change.
StatusActivity(q) ==
  [type |-> "ORDER_UPDATED", orderId |-> q.target, userId |-> q.user.sub,
   laundryId |-> None, previousStatus |-> q.cur, newStatus |-> q.body.status]

PatchAudit(r) ==
  /\ reqs[r].pc = "audit"
  /\ reqs[r].kind = "patch"
  /\ activities' = Append(activities, StatusActivity(reqs[r]))
  /\ Respond(r, 200, "Order updated successfully")
  /\ UNCHANGED <<users, laundries, orders, started>>

\* activity.create throws after order.update went through: the catch block answers 500.
PatchAuditFails(r) ==
  /\ reqs[r].pc = "audit"
  /\ reqs[r].kind = "patch"
  /\ Respond(r, 500, "Failed to update order")
  /\ UNCHANGED <<users, laundries, orders, activities, started>>

\* The response has been sent and the slot takes the next request.
Return(r) ==
  /\ reqs[r].pc = "done"
  /\ reqs' = [reqs EXCEPT ![r] = Idle]
  /\ UNCHANGED <<users, laundries, orders, activities, started>>


(***************************************************************************)
(* PATCH /api/admin/orders/[orderId]?laundryId=..., the variant that       *)
(* authenticates nobody and checks no transition.                          *)
(***************************************************************************)
getActivityType(orderStatus) ==
  CASE orderStatus = "PENDING" -> "ORDER_CREATED"
    [] orderStatus \in {"DELIVERED", "COMPLETED"} -> "ORDER_COMPLETED"
    [] orderStatus = "CANCELED" -> "ORDER_CANCELED"
    [] OTHER -> "ORDER_UPDATED"

\* The parameter checks and order.findFirst({id, laundryId}).
LooseFind(r, laundryId, orderId, body) ==
  /\ reqs[r].pc = "idle"
  /\ started' = started + 1
  /\ LET q == [Idle EXCEPT !.kind = "loose", !.target = orderId,
                           !.laundryId = laundryId, !.body = body]
         answer(code, msg) ==
           reqs' = [reqs EXCEPT ![r] = [q EXCEPT !.pc = "done", !.code = code, !.msg = msg]]
     IN  IF laundryId = None THEN answer(400, "laundryId parameter is required")
         ELSE IF body.status = None THEN answer(400, "Status is required")
         ELSE IF body.status \notin validStatuses THEN answer(400, "Invalid status")
         ELSE IF orderId \notin DOMAIN orders \/ orders[orderId].laundryId # laundryId
           THEN answer(404, "Order not found or does not belong to this laundry")
         ELSE reqs' = [reqs EXCEPT ![r] =
                [q EXCEPT !.pc = "update", !.cur = orders[orderId].status,
                          !.curNotes = orders[orderId].notes]]
  /\ UNCHANGED <<users, laundries, orders, activities>>

\* prisma.order.update({data: {status, notes: notes || existingOrder.notes}}).
LooseUpdate(r) ==
  /\ reqs[r].pc = "update"
  /\ reqs[r].kind = "loose"
  /\ LET q == reqs[r]
     IN  orders' = [orders EXCEPT
           ![q.target].status = q.body.status,
           ![q.target].notes = IF q.body.notes # None THEN q.body.notes ELSE q.curNotes]
  /\ reqs' = [reqs EXCEPT ![r].pc = "audit"]
  /\ UNCHANGED <<users, laundries, activities, started>>

LooseActivity(q) ==
  [type |-> getActivityType(q.body.status), orderId |-> q.target, userId |-> None,
   laundryId |-> q.laundryId, previousStatus |-> q.cur, newStatus |-> q.body.status]

LooseAudit(r) ==
  /\ reqs[r].pc = "audit"
  /\ reqs[r].kind = "loose"
  /\ activities' = Append(activities, LooseActivity(reqs[r]))
  /\ Respond(r, 200, "Order status updated successfully")
  /\ UNCHANGED <<users, laundries, orders, started>>

(***************************************************************************)
(* POST /api/super-admin/laundries/[laundryId]/suspend                     *)
(***************************************************************************)
SuspensionType == {"TEMPORARY", "INDEFINITE"}

SuspendAuth(r, tok, laundryId) ==
  /\ reqs[r].pc = "idle"
  /\ started' = started + 1
  /\ LET authResult == requireRole(tok, {"SUPER_ADMIN"}, None, None)
         q == [Idle EXCEPT !.kind = "suspend", !.tok = tok, !.target = laundryId,
                           !.laundryId = laundryId]
     IN  IF ~authResult.ok
           THEN reqs' = [reqs EXCEPT ![r] =
                  [q EXCEPT !.pc = "done", !.code = authResult.code, !.msg = authResult.msg]]
           ELSE reqs' = [reqs EXCEPT ![r] = [q EXCEPT !.pc = "parse", !.user = authResult.user]]
  /\ UNCHANGED <<users, laundries, orders, activities>>

\* suspendLaundrySchema.safeParse, laundry.findUnique and the already-suspended check.
\* body.status carries suspensionType; reasonOk is whether the reason passes the schema.
SuspendFind(r, suspensionType, reasonOk) ==
  /\ reqs[r].pc = "parse"
  /\ reqs[r].kind = "suspend"
  /\ LET laundryId == reqs[r].laundryId
         body == [NoBody EXCEPT !.status = suspensionType]
     IN  IF ~reasonOk
           THEN reqs' = [reqs EXCEPT ![r].pc = "done",
                                     ![r].code = 400, ![r].msg = "Validation error"]
         ELSE IF laundryId \notin DOMAIN laundries
           THEN reqs' = [reqs EXCEPT ![r].pc = "done", ![r].body = body,
                                     ![r].code = 404, ![r].msg = "Laundry not found"]
         ELSE IF laundries[laundryId].status = "SUSPENDED"
           THEN reqs' = [reqs EXCEPT ![r].pc = "done", ![r].body = body,
                                     ![r].cur = laundries[laundryId].status,
                                     ![r].code = 409, ![r].msg = "Laundry is already suspended"]
         ELSE reqs' = [reqs EXCEPT ![r].pc = "update", ![r].body = body,
                                   ![r].cur = laundries[laundryId].status]
  /\ UNCHANGED <<users, laundries, orders, activities, started>>

CancelNote == "Order cancelled due to laundry suspension"
OnHoldNote == "Order on hold due to laundry suspension"

\* The two order.updateMany calls of the transaction.
SuspendOrder(order, laundryId) ==
  IF order.laundryId = laundryId /\ order.status \in {"PENDING", "CONFIRMED"}
    THEN [order EXCEPT !.status = "CANCELED", !.notes = CancelNote]
  ELSE IF order.laundryId = laundryId
          /\ order.status \in {"IN_PROGRESS", "READY_FOR_PICKUP", "OUT_FOR_DELIVERY"}
    THEN [order EXCEPT !.notes = OnHoldNote]
  ELSE order

SuspendActivity(q) ==
  [type |-> "LAUNDRY_SUSPENDED", orderId |-> None, userId |-> None,
   laundryId |-> q.laundryId, previousStatus |-> None, newStatus |-> None]

\* prisma.$transaction: every write of it happens, at once.
SuspendTxn(r) ==
  /\ reqs[r].pc = "update"
  /\ reqs[r].kind = "suspend"
  /\ LET q == reqs[r]
         admin == laundries[q.laundryId].adminId
     IN  /\ laundries' = [laundries EXCEPT ![q.laundryId].status = "SUSPENDED"]
         /\ orders' = [o \in DOMAIN orders |-> SuspendOrder(orders[o], q.laundryId)]
         /\ activities' = Append(activities, SuspendActivity(q))
         /\ users' = IF q.body.status = "INDEFINITE"
                       THEN [users EXCEPT ![admin].suspendedAt = TRUE,
                                          ![admin].suspensionReason = "Laundry suspended"]
                       ELSE users
  /\ Respond(r, 200, "Laundry suspended successfully")
  /\ UNCHANGED started


(***************************************************************************)
(* The guards of the middleware, each applied to a request on its own.     *)
(***************************************************************************)
\* The caller of a guard gets its result: the failure response or the user.
Guarded(r, q, authResult) ==
  /\ reqs[r].pc = "idle"
  /\ started' = started + 1
  /\ reqs' = [reqs EXCEPT ![r] =
       [q EXCEPT !.pc = "done", !.code = authResult.code, !.msg = authResult.msg,
                 !.reason = authResult.reason, !.user = authResult.user]]
  /\ UNCHANGED <<users, laundries, orders, activities>>

Authenticate(r, tok) ==
  Guarded(r, [Idle EXCEPT !.kind = "authenticate", !.tok = tok], authenticateUser(tok))

RoleCheck(r, tok, allowedRoles, requireLaundry, allowSuperAdmin) ==
  Guarded(r, [Idle EXCEPT !.kind = "role", !.tok = tok, !.allowedRoles = allowedRoles,
                          !.requireLaundry = requireLaundry,
                          !.allowSuperAdmin = allowSuperAdmin],
          requireRole(tok, allowedRoles, requireLaundry, allowSuperAdmin))

\* The same two calls on the middleware of lib/validations.ts.
BearerAuthenticate(r, tok) ==
  Guarded(r, [Idle EXCEPT !.kind = "bearerAuthenticate", !.tok = tok],
          authenticateUser_bearer(tok))

BearerRoleCheck(r, tok, allowedRoles) ==
  Guarded(r, [Idle EXCEPT !.kind = "bearerRole", !.tok = tok, !.allowedRoles = allowedRoles],
          requireRole_bearer(tok, allowedRoles))

OrderAccess(r, tok, orderId) ==
  Guarded(r, [Idle EXCEPT !.kind = "orderAccess", !.tok = tok, !.target = orderId],
          requireOrderAccess(tok, orderId))

LaundryAccess(r, tok, laundryId) ==
  Guarded(r, [Idle EXCEPT !.kind = "laundryAccess", !.tok = tok, !.target = laundryId],
          requireLaundryAccess(tok, laundryId))

CustomerOwnership(r, tok, resourceUserId) ==
  \E first \in FirstOrders(resourceUserId) :
    Guarded(r, [Idle EXCEPT !.kind = "customerOwnership", !.tok = tok,
                            !.target = resourceUserId, !.first = first],
            requireCustomerOwnership(tok, resourceUserId, first))

(***************************************************************************)
(* DELETE and PATCH /api/admin/customers/[customerId]: an admin suspends   *)
(* and reactivates a customer.                                             *)
(***************************************************************************)
ActiveStatus ==
  {"PENDING", "CONFIRMED", "IN_PROGRESS", "READY_FOR_PICKUP", "OUT_FOR_DELIVERY"}

\* `Account suspended by admin from laundry ${user.laundryId}`
AdminSuspensionReason(laundryId) ==
  CASE laundryId = "L1" -> "Account suspended by admin from laundry L1"
    [] laundryId = "L2" -> "Account suspended by admin from laundry L2"
    [] OTHER -> "Account suspended by admin from laundry"

\* requireRole(request, ['ADMIN'], {requireLaundry: true}) of both handlers.
CustomerAuth(r, kind, tok, customerId) ==
  /\ reqs[r].pc = "idle"
  /\ started' = started + 1
  /\ LET authResult == requireRole(tok, {"ADMIN"}, "true", None)
         q == [Idle EXCEPT !.kind = kind, !.tok = tok, !.target = customerId]
     IN  IF ~authResult.ok
           THEN reqs' = [reqs EXCEPT ![r] =
                  [q EXCEPT !.pc = "done", !.code = authResult.code, !.msg = authResult.msg,
                            !.reason = authResult.reason]]
           ELSE reqs' = [reqs EXCEPT ![r] = [q EXCEPT !.pc = "parse", !.user = authResult.user]]
  /\ UNCHANGED <<users, laundries, orders, activities>>

CustomerSuspendAuth(r, tok, customerId) == CustomerAuth(r, "customerSuspend", tok, customerId)

\* user.findFirst({id, role: 'CUSTOMER', orders: {some: {laundryId}}}) and the
\* check that none of the customer's orders at this laundry is active;
\* laundryId: undefined in a where clause of Prisma is no condition.
CustomerSuspendFind(r) ==
  /\ reqs[r].pc = "parse"
  /\ reqs[r].kind = "customerSuspend"
  /\ LET q == reqs[r]
         mine == {o \in DOMAIN orders : /\ orders[o].customerId = q.target
                                         /\ \/ q.user.laundryId = None
                                            \/ orders[o].laundryId = q.user.laundryId}
         found == /\ q.target \in DOMAIN users
                  /\ users[q.target].role = "CUSTOMER"
                  /\ mine # {}
     IN  IF ~found
           THEN Respond(r, 404, "Customer not found or not associated with your laundry")
         ELSE IF \E o \in mine : orders[o].status \in ActiveStatus
           THEN Respond(r, 400, "Cannot delete customer: active order(s) found")
         ELSE reqs' = [reqs EXCEPT ![r].pc = "update"]
  /\ UNCHANGED <<users, laundries, orders, activities, started>>

\* user.update({suspendedAt: new Date(), suspensionReason}).
CustomerSuspendUpdate(r) ==
  /\ reqs[r].pc = "update"
  /\ reqs[r].kind = "customerSuspend"
  /\ users' = [users EXCEPT
       ![reqs[r].target].suspendedAt = TRUE,
       ![reqs[r].target].suspensionReason = AdminSuspensionReason(reqs[r].user.laundryId)]
  /\ reqs' = [reqs EXCEPT ![r].pc = "audit"]
  /\ UNCHANGED <<laundries, orders, activities, started>>

\* The activity row of a customer handler; the customer's id goes to its metadata.
CustomerActivity(q, type) ==
  [type |-> type, orderId |-> None, userId |-> q.user.sub,
   laundryId |-> None, previousStatus |-> None, newStatus |-> None]

CustomerSuspendAudit(r) ==
  /\ reqs[r].pc = "audit"
  /\ reqs[r].kind = "customerSuspend"
  /\ activities' = Append(activities, CustomerActivity(reqs[r], "USER_SUSPENDED"))
  /\ Respond(r, 200, "Customer suspended successfully")
  /\ UNCHANGED <<users, laundries, orders, started>>

CustomerReactivateAuth(r, tok, customerId) ==
  CustomerAuth(r, "customerReactivate", tok, customerId)

\* The action of the body, then user.findFirst({id, role: 'CUSTOMER',
\* suspendedAt: {not: null}}).
CustomerReactivateFind(r, action) ==
  /\ reqs[r].pc = "parse"
  /\ reqs[r].kind = "customerReactivate"
  /\ LET q == reqs[r]
         found == /\ q.target \in DOMAIN users
                  /\ users[q.target].role = "CUSTOMER"
                  /\ users[q.target].suspendedAt
     IN  IF action # "reactivate"
           THEN Respond(r, 400, "Only reactivation action is supported")
         ELSE IF ~found THEN Respond(r, 404, "Customer not found or not suspended")
         ELSE reqs' = [reqs EXCEPT ![r].pc = "update"]
  /\ UNCHANGED <<users, laundries, orders, activities, started>>

\* user.update({suspendedAt: null, suspensionReason: null}).
CustomerReactivateUpdate(r) ==
  /\ reqs[r].pc = "update"
  /\ reqs[r].kind = "customerReactivate"
  /\ users' = [users EXCEPT ![reqs[r].target].suspendedAt = FALSE,
                            ![reqs[r].target].suspensionReason = None]
  /\ reqs' = [reqs EXCEPT ![r].pc = "audit"]
  /\ UNCHANGED <<laundries, orders, activities, started>>

CustomerReactivateAudit(r) ==
  /\ reqs[r].pc = "audit"
  /\ reqs[r].kind = "customerReactivate"
  /\ activities' = Append(activities, CustomerActivity(reqs[r], "USER_REACTIVATED"))
  /\ Respond(r, 200, "Customer reactivated successfully")
  /\ UNCHANGED <<users, laundries, orders, started>>


(***************************************************************************)
(* POST /api/user/orders and the two POST /api/user/orders/[orderId]/reorder *)
(* handlers: the creation of orders.                                       *)
(***************************************************************************)
\* The ids the database gives to new orders.
NewOrderIds == {"n1", "n2", "n3", "n4"}
FreshOrderId == CHOOSE id \in NewOrderIds : id \notin DOMAIN orders

ReorderableStatus == {"DELIVERED", "COMPLETED"}

\* order.create({status: 'PENDING', customerId, laundryId, notes}).
CreatedOrder(customerId, laundryId, notes) ==
  [status |-> "PENDING", notes |-> notes, pickupDate |-> None, deliveryDate |-> None,
   customerId |-> customerId, laundryId |-> laundryId]

InsertOrder(id, order) ==
  [o \in DOMAIN orders \cup {id} |-> IF o = id THEN order ELSE orders[o]]

CreatedActivity(orderId, userId, laundryId) ==
  [type |-> "ORDER_CREATED", orderId |-> orderId, userId |-> userId,
   laundryId |-> laundryId, previousStatus |-> None, newStatus |-> None]

\* POST /api/user/orders: requireRole(request, ['CUSTOMER']).
CreateAuth(r, tok, laundryId) ==
  /\ reqs[r].pc = "idle"
  /\ started' = started + 1
  /\ LET authResult == requireRole(tok, {"CUSTOMER"}, None, None)
         q == [Idle EXCEPT !.kind = "createOrder", !.tok = tok, !.laundryId = laundryId]
     IN  IF ~authResult.ok
           THEN reqs' = [reqs EXCEPT ![r] =
                  [q EXCEPT !.pc = "done", !.code = authResult.code, !.msg = authResult.msg,
                            !.reason = authResult.reason]]
           ELSE reqs' = [reqs EXCEPT ![r] = [q EXCEPT !.pc = "parse", !.user = authResult.user]]
  /\ UNCHANGED <<users, laundries, orders, activities>>

\* The body, the address, laundry.findUnique({id, status: 'ACTIVE'}) and the
\* products; valid is whether the body, the address and the products pass.
CreateCheck(r, valid) ==
  /\ reqs[r].pc = "parse"
  /\ reqs[r].kind = "createOrder"
  /\ LET l == reqs[r].laundryId
     IN  IF ~valid THEN Respond(r, 400, "Validation error")
         ELSE IF l \notin DOMAIN laundries \/ laundries[l].status # "ACTIVE"
           THEN Respond(r, 400, "Laundry not found or inactive")
         ELSE reqs' = [reqs EXCEPT ![r].pc = "update"]
  /\ UNCHANGED <<users, laundries, orders, activities, started>>

\* prisma.$transaction: order.create and activity.create.
CreateTxn(r) ==
  /\ reqs[r].pc = "update"
  /\ reqs[r].kind = "createOrder"
  /\ LET q == reqs[r]
         id == FreshOrderId
     IN  /\ orders' = InsertOrder(id, CreatedOrder(q.user.sub, q.laundryId, None))
         /\ activities' = Append(activities, CreatedActivity(id, q.user.sub, None))
         /\ reqs' = [reqs EXCEPT ![r].pc = "done", ![r].code = 200,
                                 ![r].msg = "Order created successfully", ![r].first = id]
  /\ UNCHANGED <<users, laundries, started>>

\* POST reorder with requireOrderAccess(request, params.orderId).
ReorderAuth(r, tok, orderId) ==
  /\ reqs[r].pc = "idle"
  /\ started' = started + 1
  /\ LET authResult == requireOrderAccess(tok, orderId)
         q == [Idle EXCEPT !.kind = "reorder", !.tok = tok, !.target = orderId]
     IN  IF ~authResult.ok
           THEN reqs' = [reqs EXCEPT ![r] =
                  [q EXCEPT !.pc = "done", !.code = authResult.code, !.msg = authResult.msg,
                            !.reason = authResult.reason]]
           ELSE reqs' = [reqs EXCEPT ![r] = [q EXCEPT !.pc = "parse", !.user = authResult.user]]
  /\ UNCHANGED <<users, laundries, orders, activities>>

\* order.findUnique({id, status in DELIVERED, COMPLETED}), the address and the
\* products; the laundry of the original order is copied, its status is not read.
ReorderFind(r, valid) ==
  /\ reqs[r].pc = "parse"
  /\ reqs[r].kind = "reorder"
  /\ LET o == reqs[r].target
     IN  IF o \notin DOMAIN orders \/ orders[o].status \notin ReorderableStatus
           THEN Respond(r, 404, "Original order not found or cannot be reordered")
         ELSE IF ~valid THEN Respond(r, 400, "Invalid delivery address")
         ELSE reqs' = [reqs EXCEPT ![r].pc = "update", ![r].laundryId = orders[o].laundryId]
  /\ UNCHANGED <<users, laundries, orders, activities, started>>

\* prisma.order.create.
ReorderCreate(r) ==
  /\ reqs[r].pc = "update"
  /\ reqs[r].kind = "reorder"
  /\ LET q == reqs[r]
         id == FreshOrderId
     IN  /\ orders' = InsertOrder(id, CreatedOrder(q.user.sub, q.laundryId, "Reorder"))
         /\ reqs' = [reqs EXCEPT ![r].pc = "audit", ![r].first = id]
  /\ UNCHANGED <<users, laundries, activities, started>>

\* prisma.activity.create.
ReorderAudit(r) ==
  /\ reqs[r].pc = "audit"
  /\ reqs[r].kind = "reorder"
  /\ activities' = Append(activities, CreatedActivity(reqs[r].first, reqs[r].user.sub, None))
  /\ Respond(r, 200, "Order reordered successfully")
  /\ UNCHANGED <<users, laundries, orders, started>>

\* POST reorder?userId=...: nobody is authenticated; order.findFirst({id,
\* customerId: userId, status in DELIVERED, COMPLETED}) with its laundry, then
\* the checks of the laundry, the address and the products.
ReorderByUserFind(r, userId, orderId, valid) ==
  /\ reqs[r].pc = "idle"
  /\ started' = started + 1
  /\ LET q == [Idle EXCEPT !.kind = "reorderByUser", !.target = orderId,
                           !.user = [NoUser EXCEPT !.sub = userId]]
         answer(code, msg) ==
           reqs' = [reqs EXCEPT ![r] = [q EXCEPT !.pc = "done", !.code = code, !.msg = msg]]
     IN  IF userId = None THEN answer(400, "userId parameter is required")
         ELSE IF \/ orderId \notin DOMAIN orders
                 \/ orders[orderId].customerId # userId
                 \/ orders[orderId].status \notin ReorderableStatus
           THEN answer(404, "Original order not found, does not belong to customer, or not eligible for reorder")
         ELSE IF laundries[orders[orderId].laundryId].status # "ACTIVE"
           THEN answer(400, "Laundry is no longer active")
         ELSE IF ~valid THEN answer(400, "Original delivery address is no longer available")
         ELSE reqs' = [reqs EXCEPT ![r] =
                [q EXCEPT !.pc = "update", !.laundryId = orders[orderId].laundryId]]
  /\ UNCHANGED <<users, laundries, orders, activities>>

\* prisma.$transaction: order.create and activity.create.
ReorderByUserTxn(r) ==
  /\ reqs[r].pc = "update"
  /\ reqs[r].kind = "reorderByUser"
  /\ LET q == reqs[r]
         id == FreshOrderId
     IN  /\ orders' = InsertOrder(id, CreatedOrder(q.user.sub, q.laundryId, "Reorder"))
         /\ activities' = Append(activities, CreatedActivity(id, q.user.sub, q.laundryId))
         /\ reqs' = [reqs EXCEPT ![r].pc = "done", ![r].code = 200,
                                 ![r].msg = "Order reordered successfully", ![r].first = id]
  /\ UNCHANGED <<users, laundries, started>>


(***************************************************************************)
(* The database at the start, and the requests the model sends.            *)
(***************************************************************************)
MaxRequests == 2

InitUsers ==
  [u \in UserIds |->
     [role |-> CASE u = "sa" -> "SUPER_ADMIN"
                 [] u \in {"a1", "a2"} -> "ADMIN"
                 [] OTHER -> "CUSTOMER",
      email |-> IssuedEmail(u), password |-> "pw",
      suspendedAt |-> FALSE, suspensionReason |-> None]]

InitLaundries ==
  [l \in LaundryIds |->
     [status |-> "ACTIVE", adminId |-> IF l = "L1" THEN "a1" ELSE "a2"]]

NewOrder(customerId, laundryId, status) ==
  [status |-> status, notes |-> "n0", pickupDate |-> None, deliveryDate |-> None,
   customerId |-> customerId, laundryId |-> laundryId]

\* The callers: every user, and a request without a token.
Tokens == UserIds \cup {NoToken}
\* The order ids the requests name: o1 (of customer c1 at laundry L1) and an id
\* without a row; o2 is the order of another customer at another laundry.
OrderTargets == {"o1", MissingOrder}
LaundryTargets == LaundryIds \cup {MissingLaundry}

\* A PATCH body: any status or none, and the other fields given or left out.
PatchBodies ==
  {b \in [status : OrderStatus \cup {None}, notes : {None, "n1"},
          pickupDate : {None, "d1"}, deliveryDate : {None, "d1"}] :
     (b.notes = None) = (b.pickupDate = None) /\ b.pickupDate = b.deliveryDate}

LooseBodies ==
  [status : OrderStatus \cup {None}, notes : {None, "n1"},
   pickupDate : {None}, deliveryDate : {None}]

\* Order o1 starts in any status of initStatus (seeded and imported rows carry
\* every status of the enum), order o2 as it was created.
InitWith(initStatus) ==
  /\ users = InitUsers
  /\ laundries = InitLaundries
  /\ \E s1 \in initStatus :
       orders = [o \in OrderIds |->
                   IF o = "o1" THEN NewOrder("c1", "L1", s1)
                               ELSE NewOrder("c2", "L2", "PENDING")]
  /\ activities = <<>>
  /\ reqs = [r \in Reqs |-> Idle]
  /\ started = 0

Init == InitWith(OrderStatus)

\* One request of any handler makes a step; toks, bodies and lbodies are what
\* the clients send.
Step(r, toks, bodies, lbodies) ==
  \/ /\ started < MaxRequests
     /\ \/ \E tok \in toks, o \in OrderTargets : PatchAuth(r, tok, o)
        \/ \E l \in LaundryTargets \cup {None}, o \in OrderTargets, body \in lbodies :
             LooseFind(r, l, o, body)
        \/ \E tok \in toks, l \in LaundryTargets : SuspendAuth(r, tok, l)
  \/ \E body \in bodies : PatchRead(r, body)
  \/ PatchUpdate(r)
  \/ PatchAudit(r)
  \/ LooseUpdate(r)
  \/ LooseAudit(r)
  \/ \E t \in SuspensionType, reasonOk \in BOOLEAN : SuspendFind(r, t, reasonOk)
  \/ SuspendTxn(r)
  \/ Return(r)

\* Requests served one after the other, with everything a client can send.
Next == Step("r1", Tokens, PatchBodies, LooseBodies)

Spec == Init /\ [][Next]_vars

\* The same, where activity.create of the guarded handler may throw.
NextCrash == Next \/ PatchAuditFails("r1")

SpecCrash == Init /\ [][NextCrash]_vars

\* Two admins work on the confirmed order o1 at the same time: their guarded
\* PATCH requests interleave at every database call.
RaceTokens == {"sa", "a1"}

RaceBodies ==
  {b \in PatchBodies : b.status \in {"CONFIRMED", "IN_PROGRESS", "CANCELED"}}

RaceStep(r) ==
  \/ started < MaxRequests /\ \E tok \in RaceTokens : PatchAuth(r, tok, "o1")
  \/ \E body \in RaceBodies : PatchRead(r, body)
  \/ PatchUpdate(r)
  \/ PatchAudit(r)
  \/ Return(r)

NextRace == \E r \in Reqs : RaceStep(r)

InitRace == InitWith({"CONFIRMED"})

SpecRace == InitRace /\ [][NextRace]_vars

\* Two requests of any handler at a time, with everything a client can send.
NextConcurrent == \E r \in Reqs : Step(r, Tokens, PatchBodies, LooseBodies)

SpecConcurrent == Init /\ [][NextConcurrent]_vars

(***************************************************************************)
(* The middleware on its own: every guard applied to every kind of caller  *)
(* and token, and the two handlers that suspend and reactivate customers.  *)
(***************************************************************************)
\* The users of this run: those above, an admin without a laundry, a delivery
\* guy, and a customer without an order.
AuthUserIds == UserIds \cup {"a3", "d1", "c3"}

\* Every user row as it was when the tokens were signed.
InitAuthUsers ==
  [u \in AuthUserIds |->
     [role |-> IssuedRole(u), email |-> IssuedEmail(u),
      password |-> IF u = "c3" THEN None ELSE "pw",
      suspendedAt |-> FALSE, suspensionReason |-> None]]

\* Whatever an Authorization header can hold.
AuthTokens ==
  AuthUserIds \cup {DeletedUser, NoToken, NotBearer, EmptyToken, BadSignature,
                    ExpiredToken, NoSubject}

AuthOrderIds == {"o1", "o2", "o3"}
CustomerTargets == {"c1", "c2", "c3", "a1", DeletedUser}

\* The users whose row may have changed since the tokens were signed, and the
\* callers of requireRole: one user of every kind.
ChangedUsers == {"sa", "a1", "c1"}
RoleTokens == {"sa", "a1", "a3", "c1", "d1"}

\* Since the tokens were signed one user row may have changed: its role, or a
\* suspension written without a reason.  Customer c1 has an order at both
\* laundries (an active one at L1), c2 at L2 only, c3 nowhere.
InitAuth ==
  /\ \E u \in ChangedUsers, role \in UserRole, suspended \in BOOLEAN :
       users = [InitAuthUsers EXCEPT ![u].role = role, ![u].suspendedAt = suspended]
  /\ laundries = InitLaundries
  /\ orders = [o \in AuthOrderIds |->
                 CASE o = "o1" -> NewOrder("c1", "L1", "PENDING")
                   [] o = "o2" -> NewOrder("c2", "L2", "COMPLETED")
                   [] OTHER -> NewOrder("c1", "L2", "COMPLETED")]
  /\ activities = <<>>
  /\ reqs = [r \in Reqs |-> Idle]
  /\ started = 0

StepAuth(r) ==
  \/ /\ started < MaxRequests
     /\ \/ \E tok \in AuthTokens : Authenticate(r, tok)
        \/ \E tok \in RoleTokens, allowedRoles \in SUBSET UserRole,
              requireLaundry \in Options, allowSuperAdmin \in Options :
             RoleCheck(r, tok, allowedRoles, requireLaundry, allowSuperAdmin)
        \/ \E tok \in AuthTokens : BearerAuthenticate(r, tok)
        \/ \E tok \in AuthTokens, allowedRoles \in SUBSET UserRole :
             BearerRoleCheck(r, tok, allowedRoles)
        \/ \E tok \in AuthTokens, o \in AuthOrderIds \cup {MissingOrder} :
             OrderAccess(r, tok, o)
        \/ \E tok \in AuthTokens, l \in LaundryTargets : LaundryAccess(r, tok, l)
        \/ \E tok \in AuthTokens, c \in CustomerTargets : CustomerOwnership(r, tok, c)
        \/ \E tok \in AuthTokens, c \in CustomerTargets : CustomerSuspendAuth(r, tok, c)
        \/ \E tok \in AuthTokens, c \in CustomerTargets : CustomerReactivateAuth(r, tok, c)
  \/ CustomerSuspendFind(r)
  \/ CustomerSuspendUpdate(r)
  \/ CustomerSuspendAudit(r)
  \/ \E action \in {"reactivate", "delete"} : CustomerReactivateFind(r, action)
  \/ CustomerReactivateUpdate(r)
  \/ CustomerReactivateAudit(r)
  \/ Return(r)

NextAuth == StepAuth("r1")

SpecAuth == InitAuth /\ [][NextAuth]_vars

(***************************************************************************)
(* POST /api/auth/signin and POST /api/auth/signout, and the requests a    *)
(* client sends with the token it got.  A slot that is done is a response  *)
(* its client still holds.                                                 *)
(***************************************************************************)
\* createJWT(user): the token signed over the id, email and role of the row.
createJWT(id, row) ==
  CHOOSE tok \in AuthUserIds :
    payload(tok) = [sub |-> id, email |-> row.email, role |-> row.role]

\* An email no user has, and a body signinSchema rejects.
UnknownEmail == "nobody@mail"
NotAnEmail == "not-an-email"
SigninEmails == {IssuedEmail(u) : u \in AuthUserIds} \cup {UnknownEmail, NotAnEmail}
SigninPasswords == {"pw", "wrong"}

\* POST /api/auth/signin: schema, user.findUnique({email}), bcrypt.compare, createJWT.
SignIn(r, email, password) ==
  /\ reqs[r].pc = "idle"
  /\ started' = started + 1
  /\ LET q == [Idle EXCEPT !.kind = "signin"]
         found == {u \in DOMAIN users : users[u].email = email}
         answer(code, msg) ==
           reqs' = [reqs EXCEPT ![r] = [q EXCEPT !.pc = "done", !.code = code, !.msg = msg]]
     IN  IF email = NotAnEmail THEN answer(400, "Validation error")
         ELSE IF found = {} THEN answer(401, "Invalid credentials")
         ELSE LET id == CHOOSE u \in found : TRUE
                  user == users[id]
              IN  IF user.password = None \/ user.password # password
                    THEN answer(401, "Invalid credentials")
                    ELSE reqs' = [reqs EXCEPT ![r] =
                           [q EXCEPT !.pc = "done", !.code = 200, !.msg = "Login successful",
                                     !.tok = createJWT(id, user),
                                     !.user = [sub |-> id, email |-> user.email,
                                               role |-> user.role, laundryId |-> None]]]
  /\ UNCHANGED <<users, laundries, orders, activities>>

\* POST /api/auth/signout: authenticateUser is called and its result dropped.
SignOut(r, tok) ==
  /\ reqs[r].pc = "idle"
  /\ started' = started + 1
  /\ reqs' = [reqs EXCEPT ![r] =
       [Idle EXCEPT !.kind = "signout", !.tok = tok, !.pc = "done", !.code = 200,
                    !.msg = "Successfully signed out"]]
  /\ UNCHANGED <<users, laundries, orders, activities>>

\* A user may have been suspended before it signs in.
InitSession ==
  /\ \E u \in AuthUserIds, suspended \in BOOLEAN :
       users = [InitAuthUsers EXCEPT ![u].suspendedAt = suspended]
  /\ laundries = InitLaundries
  /\ orders = [o \in OrderIds |->
                 IF o = "o1" THEN NewOrder("c1", "L1", "PENDING")
                             ELSE NewOrder("c2", "L2", "PENDING")]
  /\ activities = <<>>
  /\ reqs = [r \in Reqs |-> Idle]
  /\ started = 0

StepSession(r) ==
  \/ /\ started < MaxRequests
     /\ \/ \E email \in SigninEmails, password \in SigninPasswords : SignIn(r, email, password)
        \/ \E tok \in AuthTokens : SignOut(r, tok)
        \/ \E tok \in AuthTokens : Authenticate(r, tok)
  \/ Return(r)

NextSession == \E r \in Reqs : StepSession(r)

SpecSession == InitSession /\ [][NextSession]_vars

(***************************************************************************)
(* The protected handlers that write: the guarded PATCH, the suspension of *)
(* a laundry, the suspension and the reactivation of a customer, and the   *)
(* creation of orders, each called by every kind of caller.                *)
(***************************************************************************)
GateTokens == {"sa", "a1", "a2", "c1", "c2", NoToken}

\* o1 of customer c1 at laundry L1, o2 of customer c2 at laundry L2.
InitGate ==
  /\ users = InitUsers
  /\ laundries = InitLaundries
  /\ \E s1 \in {"PENDING", "COMPLETED"} :
       orders = [o \in OrderIds |->
                   IF o = "o1" THEN NewOrder("c1", "L1", s1)
                               ELSE NewOrder("c2", "L2", "PENDING")]
  /\ activities = <<>>
  /\ reqs = [r \in Reqs |-> Idle]
  /\ started = 0

StepGate(r) ==
  \/ /\ started < MaxRequests
     /\ \/ \E tok \in GateTokens, o \in OrderTargets : PatchAuth(r, tok, o)
        \/ \E tok \in GateTokens, l \in LaundryTargets : SuspendAuth(r, tok, l)
        \/ \E tok \in GateTokens : CustomerSuspendAuth(r, tok, "c1")
        \/ \E tok \in GateTokens : CustomerReactivateAuth(r, tok, "c1")
        \/ \E tok \in GateTokens, l \in LaundryTargets : CreateAuth(r, tok, l)
        \/ \E tok \in GateTokens, o \in OrderTargets : ReorderAuth(r, tok, o)
  \/ \E body \in RaceBodies : PatchRead(r, body)
  \/ PatchUpdate(r)
  \/ PatchAudit(r)
  \/ \E suspensionType \in SuspensionType : SuspendFind(r, suspensionType, TRUE)
  \/ SuspendTxn(r)
  \/ CustomerSuspendFind(r)
  \/ CustomerSuspendUpdate(r)
  \/ CustomerSuspendAudit(r)
  \/ CustomerReactivateFind(r, "reactivate")
  \/ CustomerReactivateUpdate(r)
  \/ CustomerReactivateAudit(r)
  \/ \E valid \in BOOLEAN : CreateCheck(r, valid)
  \/ CreateTxn(r)
  \/ \E valid \in BOOLEAN : ReorderFind(r, valid)
  \/ ReorderCreate(r)
  \/ ReorderAudit(r)
  \/ Return(r)

NextGate == StepGate("r1")

SpecGate == InitGate /\ [][NextGate]_vars


(***************************************************************************)
(* The creation of orders next to the suspension of their laundry: two     *)
(* requests at a time, by customer c1 and the super admin on laundry L1.   *)
(***************************************************************************)
OrdersTokens == {"c1", "sa"}

\* o1 of customer c1 at laundry L1, delivered or still pending.
InitOrders ==
  /\ users = InitUsers
  /\ laundries = InitLaundries
  /\ \E s1 \in {"PENDING", "DELIVERED"} :
       orders = [o \in OrderIds |->
                   IF o = "o1" THEN NewOrder("c1", "L1", s1)
                               ELSE NewOrder("c2", "L2", "PENDING")]
  /\ activities = <<>>
  /\ reqs = [r \in Reqs |-> Idle]
  /\ started = 0

StepOrders(r) ==
  \/ /\ started < MaxRequests
     /\ \/ \E tok \in OrdersTokens : CreateAuth(r, tok, "L1")
        \/ \E tok \in OrdersTokens : ReorderAuth(r, tok, "o1")
        \/ \E userId \in {"c1", None}, valid \in BOOLEAN :
             ReorderByUserFind(r, userId, "o1", valid)
        \/ \E tok \in OrdersTokens : SuspendAuth(r, tok, "L1")
  \/ \E valid \in BOOLEAN : CreateCheck(r, valid)
  \/ CreateTxn(r)
  \/ \E valid \in BOOLEAN : ReorderFind(r, valid)
  \/ ReorderCreate(r)
  \/ ReorderAudit(r)
  \/ ReorderByUserTxn(r)
  \/ SuspendFind(r, "TEMPORARY", TRUE)
  \/ SuspendTxn(r)
  \/ Return(r)

NextOrders == \E r \in Reqs : StepOrders(r)

SpecOrders == InitOrders /\ [][NextOrders]_vars


(***************************************************************************)
(* Two suspension requests at a time, on orders in every status.           *)
(***************************************************************************)
SuspendTokens == {"sa", "a1"}

SuspendStep(r) ==
  \/ /\ started < MaxRequests
     /\ \E tok \in SuspendTokens, l \in LaundryTargets : SuspendAuth(r, tok, l)
  \/ \E suspensionType \in SuspensionType, reasonOk \in BOOLEAN :
       SuspendFind(r, suspensionType, reasonOk)
  \/ SuspendTxn(r)
  \/ Return(r)

NextSuspend == \E r \in Reqs : SuspendStep(r)

SpecSuspend == Init /\ [][NextSuspend]_vars


(***************************************************************************)
(* The life of one order: customer c1 creates it at laundry L1 and the     *)
(* admin of L1 sends one guarded PATCH after the other.                    *)
(***************************************************************************)
MaxPatches == 8

\* The bodies that ask for a status and nothing else.
LifecycleBodies == {b \in PatchBodies : b.status # None /\ b.notes = None}

LifecycleStep(r) ==
  \/ /\ started < MaxPatches
     /\ \/ "n1" \notin DOMAIN orders /\ CreateAuth(r, "c1", "L1")
        \/ PatchAuth(r, "a1", "n1")
  \/ CreateCheck(r, TRUE)
  \/ CreateTxn(r)
  \/ \E body \in LifecycleBodies : PatchRead(r, body)
  \/ PatchUpdate(r)
  \/ PatchAudit(r)
  \/ Return(r)

NextLifecycle == LifecycleStep("r1")

SpecLifecycle == InitWith({"COMPLETED"}) /\ [][NextLifecycle]_vars


(***************************************************************************)
(* The properties.                                                         *)
(***************************************************************************)
\* The allowed-transition table of the specification (section 4.2).
TableTargets(from) ==
  CASE from = "PENDING" -> {"CONFIRMED", "CANCELED"}
    [] from = "CONFIRMED" -> {"IN_PROGRESS", "CANCELED"}
    [] from = "IN_PROGRESS" -> {"READY_FOR_PICKUP", "CANCELED"}
    [] from = "READY_FOR_PICKUP" -> {"OUT_FOR_DELIVERY", "CANCELED"}
    [] from = "OUT_FOR_DELIVERY" -> {"DELIVERED", "CANCELED"}
    [] from = "DELIVERED" -> {"COMPLETED"}
    [] from \in {"COMPLETED", "CANCELED", "REFUNDED"} -> {}

TerminalStatus == {"COMPLETED", "CANCELED", "REFUNDED"}

PatchReqs == {r \in Reqs : reqs[r].kind = "patch"}

\* Request r of the guarded handler takes the step that parses the body, reads
\* the order and decides on the transition, and the order exists.
GuardStep(r) ==
  /\ reqs[r].kind = "patch"
  /\ reqs[r].pc = "parse"
  /\ reqs'[r].pc # "parse"
  /\ reqs[r].target \in DOMAIN orders

\* In a GuardStep of r: the status the order has, and the status the body asks for.
CurrentStatus(r) == orders[reqs[r].target].status
RequestedStatus(r) == reqs'[r].body.status

\* In a GuardStep of r: the request asks for a change that is no edge of the table.
OffTable(r) ==
  /\ RequestedStatus(r) \in OrderStatus
  /\ RequestedStatus(r) # CurrentStatus(r)
  /\ RequestedStatus(r) \notin TableTargets(CurrentStatus(r))

Rejected(q, msg) == q.pc = "done" /\ q.code = 400 /\ q.msg = msg

C3_TerminalAcceptsNothing ==
  [][\A r \in Reqs :
       ( /\ GuardStep(r)
         /\ CurrentStatus(r) \in TerminalStatus
         /\ RequestedStatus(r) \notin {None, CurrentStatus(r)} ) =>
         /\ reqs'[r].pc = "done"
         /\ reqs'[r].code = 400
         /\ UNCHANGED <<orders, activities>>]_vars

\* C3 witness: a request to move a REFUNDED order to PENDING was rejected.
C3_Witness ==
  \E r \in PatchReqs :
    /\ Rejected(reqs[r], "Invalid status transition")
    /\ reqs[r].cur = "REFUNDED"
    /\ reqs[r].body.status = "PENDING"
    /\ orders[reqs[r].target].status = "REFUNDED"

\* Request r of the guarded handler takes its order.update step.
UpdateStep(r) ==
  /\ reqs[r].kind = "patch"
  /\ reqs[r].pc = "update"
  /\ reqs'[r].pc # "update"

\* Request r of the guarded handler takes the step after order.update of a
\* status change.
AuditStep(r) ==
  /\ reqs[r].kind = "patch"
  /\ reqs[r].pc = "audit"
  /\ reqs'[r].pc # "audit"

\* C4, as claimed: a request for the status the order has is not answered with
\* the invalid-transition error, and the update of a request for the status it
\* found leaves the stored status as it is, creates no activity and is
\* answered 200.
C4_SameStatusIsNoOp ==
  [][\A r \in Reqs :
       /\ GuardStep(r) /\ RequestedStatus(r) = CurrentStatus(r) =>
            reqs'[r].msg # "Invalid status transition"
       /\ UpdateStep(r) /\ reqs[r].body.status = reqs[r].cur =>
            /\ orders'[reqs[r].target].status = orders[reqs[r].target].status
            /\ activities' = activities
            /\ reqs'[r].pc = "done"
            /\ reqs'[r].code = 200]_vars

\* C5: the step that answers with the invalid-transition error is the first
\* step of the request after its authorization and changes no table, and no
\* request reaches its update with a change the guard refuses.
C5_RejectionWritesNothing ==
  [][\A r \in Reqs :
       /\ ( /\ reqs'[r].kind = "patch"
            /\ reqs'[r].msg = "Invalid status transition"
            /\ reqs[r].pc # "done" ) =>
            /\ reqs[r].pc = "parse"
            /\ UNCHANGED <<orders, activities, users, laundries>>
       /\ UpdateStep(r) =>
            \/ reqs[r].body.status \in {None, reqs[r].cur}
            \/ reqs[r].body.status \in TableTargets(reqs[r].cur)]_vars

\* C5 witness: a request with notes and dates was rejected for an illegal
\* transition, and the order still has its notes and no dates.
C5_Witness ==
  \E r \in PatchReqs :
    /\ Rejected(reqs[r], "Invalid status transition")
    /\ reqs[r].body.notes = "n1"
    /\ reqs[r].body.pickupDate = "d1"
    /\ reqs[r].cur = "CONFIRMED"
    /\ orders[reqs[r].target] = NewOrder("c1", "L1", "CONFIRMED")
    /\ activities = <<>>

\* The audit event of an accepted transition of request q.
AuditEvent(q) ==
  [type |-> "ORDER_UPDATED", orderId |-> q.target, userId |-> q.tok,
   laundryId |-> None, previousStatus |-> q.cur, newStatus |-> q.body.status]

C7_ExactlyOneSucceeds ==
  \A r1, r2 \in PatchReqs :
    ( /\ r1 # r2
      /\ reqs[r1].target = reqs[r2].target
      /\ reqs[r1].pc = "done" /\ reqs[r2].pc = "done"
      /\ reqs[r1].cur = "CONFIRMED" /\ reqs[r2].cur = "CONFIRMED"
      /\ reqs[r1].body.status = "IN_PROGRESS"
      /\ reqs[r2].body.status = "CANCELED" ) =>
      {reqs[r1].code, reqs[r2].code} = {200, 409}

\* C8, as claimed: when a request that asked for a status change has been
\* answered and the order holds the status it asked for, the activity of that
\* change exists.
C8_StatusAndAuditTogether ==
  \A r \in PatchReqs :
    ( /\ reqs[r].pc = "done"
      /\ reqs[r].cur # None
      /\ reqs[r].body.status \notin {None, reqs[r].cur}
      /\ orders[reqs[r].target].status = reqs[r].body.status ) =>
      \E i \in DOMAIN activities : activities[i] = AuditEvent(reqs[r])

\* C9, as claimed: every change of a stored order status, by any handler,
\* follows an edge of the table.
C9_EveryChangeFollowsTable ==
  [][\A o \in DOMAIN orders :
       orders'[o].status # orders[o].status =>
         orders'[o].status \in TableTargets(orders[o].status)]_vars

\* C10, as claimed: an update of the guarded handler that changes the stored
\* status is made for a super admin or for an admin of the order's laundry.
C10_OnlyAdminsChangeStatus ==
  [][\A r \in Reqs :
       UpdateStep(r) /\ orders'[reqs[r].target].status # orders[reqs[r].target].status =>
         \/ reqs[r].user.role = "SUPER_ADMIN"
         \/ /\ reqs[r].user.role = "ADMIN"
            /\ reqs[r].user.laundryId = orders[reqs[r].target].laundryId]_vars

(***************************************************************************)
(* The middleware.                                                         *)
(***************************************************************************)
\* The token is verifiable and its user row exists, is not suspended and has this role.
IsPrincipal(tok, role) ==
  /\ tok \in DOMAIN users
  /\ ~users[tok].suspendedAt
  /\ users[tok].role = role

\* A handler of this kind has called its guard and got the result.
GuardCall(r, kind) ==
  /\ reqs[r].pc = "idle"
  /\ reqs'[r].pc = "done"
  /\ reqs'[r].kind = kind

Authorized(q) == q.code = 200 /\ q.user.sub = q.tok
Forbidden(q) == q.code = 403 /\ q.user = NoUser

\* C11: requireRole authorizes a SUPER_ADMIN principal whenever allowSuperAdmin is
\* true or left out, for every allowedRoles without SUPER_ADMIN and every
\* value of requireLaundry.
C11_SuperAdminOverride ==
  [][\A r \in Reqs :
       ( /\ GuardCall(r, "role")
         /\ IsPrincipal(reqs'[r].tok, "SUPER_ADMIN")
         /\ "SUPER_ADMIN" \notin reqs'[r].allowedRoles
         /\ reqs'[r].allowSuperAdmin \in {"true", None} )
       => Authorized(reqs'[r])]_vars

\* A SUPER_ADMIN has passed requireRole(['ADMIN'], {requireLaundry: true}).
C11_Witness ==
  \E r \in Reqs :
    /\ reqs[r].pc = "done"
    /\ reqs[r].kind = "role"
    /\ IsPrincipal(reqs[r].tok, "SUPER_ADMIN")
    /\ reqs[r].allowedRoles = {"ADMIN"}
    /\ reqs[r].requireLaundry = "true"
    /\ reqs[r].allowSuperAdmin = None
    /\ Authorized(reqs[r])

\* The token is one jwtVerify accepts and that names a subject.
Verifiable(tok) ==
  tok \notin {NoToken, NotBearer, EmptyToken, BadSignature, ExpiredToken, NoSubject}

\* C12: when the override does not apply (the principal is not SUPER_ADMIN, or
\* allowSuperAdmin is false) requireRole authorizes only a principal whose role
\* is in allowedRoles, and answers 403 to every other one; so does the
\* requireRole without options of lib/validations.ts.
C12_RoleMustBeAllowed ==
  [][\A r \in Reqs :
       /\ ( /\ GuardCall(r, "role")
            /\ \E role \in UserRole :
                 /\ IsPrincipal(reqs'[r].tok, role)
                 /\ role # "SUPER_ADMIN" \/ reqs'[r].allowSuperAdmin = "false"
                 /\ role \notin reqs'[r].allowedRoles )
          => Forbidden(reqs'[r])
       /\ ( /\ GuardCall(r, "bearerRole")
            /\ Verifiable(reqs'[r].tok)
            /\ IssuedRole(reqs'[r].tok) \notin reqs'[r].allowedRoles )
          => Forbidden(reqs'[r])]_vars

\* A SUPER_ADMIN has called requireRole(['ADMIN'], {allowSuperAdmin: false}) and got 403.
C12_Witness ==
  \E r \in Reqs :
    /\ reqs[r].pc = "done"
    /\ reqs[r].kind = "role"
    /\ IsPrincipal(reqs[r].tok, "SUPER_ADMIN")
    /\ reqs[r].allowedRoles = {"ADMIN"}
    /\ reqs[r].allowSuperAdmin = "false"
    /\ Forbidden(reqs[r])
    /\ reqs[r].msg = "Insufficient permissions"

\* C13: requireRole with requireLaundry = true answers 403 to every ADMIN
\* principal that has no laundry, whatever allowedRoles is.
C13_AdminNeedsLaundry ==
  [][\A r \in Reqs :
       ( /\ GuardCall(r, "role")
         /\ IsPrincipal(reqs'[r].tok, "ADMIN")
         /\ \A l \in DOMAIN laundries : laundries[l].adminId # reqs'[r].tok
         /\ reqs'[r].requireLaundry = "true" )
       => Forbidden(reqs'[r])]_vars

\* An admin without a laundry has called requireRole(['ADMIN'], {requireLaundry: true}).
C13_Witness ==
  \E r \in Reqs :
    /\ reqs[r].pc = "done"
    /\ reqs[r].kind = "role"
    /\ IsPrincipal(reqs[r].tok, "ADMIN")
    /\ \A l \in DOMAIN laundries : laundries[l].adminId # reqs[r].tok
    /\ reqs[r].allowedRoles = {"ADMIN"}
    /\ reqs[r].requireLaundry = "true"
    /\ Forbidden(reqs[r])
    /\ reqs[r].msg = "Admin must be associated with a laundry"

\* C14: a suspension takes effect at once: every call of authenticateUser with
\* the token of a user whose row has suspendedAt set is answered 403, from the
\* call after the suspension until the user is reactivated.
C14_SuspensionTakesEffect ==
  [][\A r \in Reqs :
       ( /\ GuardCall(r, "authenticate") \/ GuardCall(r, "bearerAuthenticate")
         /\ reqs'[r].tok \in DOMAIN users
         /\ users[reqs'[r].tok].suspendedAt )
       => Forbidden(reqs'[r])]_vars

\* C15: the principal requireRole works with has the role and the laundry of
\* the user's row as it is now, whatever role the token was signed with: a
\* call is authorized on the row's role only, and the user it returns carries
\* the row's role and laundry.
C15_RoleReadFromUserRow ==
  [][\A r \in Reqs :
       ( /\ GuardCall(r, "role") \/ GuardCall(r, "bearerRole")
         /\ reqs'[r].tok \in DOMAIN users
         /\ Authorized(reqs'[r]) )
       => /\ reqs'[r].user.role = users[reqs'[r].tok].role
          /\ \A l \in DOMAIN laundries :
               laundries[l].adminId = reqs'[r].tok => reqs'[r].user.laundryId = l
          /\ \/ users[reqs'[r].tok].role \in reqs'[r].allowedRoles
             \/ /\ users[reqs'[r].tok].role = "SUPER_ADMIN"
                /\ reqs'[r].kind = "role"
                /\ reqs'[r].allowSuperAdmin # "false"]_vars

\* C16: authenticateUser answers 401 to a missing or non-Bearer header, an
\* empty token, an invalid or expired token and a token whose user is gone;
\* it answers a suspended user 403 'Account suspended' with the suspension
\* reason, which is not the 'Insufficient permissions' of the role check, and
\* requireRole passes that answer on even when the role would fail too.
C16_FailureClassification ==
  [][\A r \in Reqs :
       GuardCall(r, "authenticate") \/ GuardCall(r, "role") =>
         /\ reqs'[r].tok \in {NoToken, NotBearer, EmptyToken, BadSignature, ExpiredToken}
              => reqs'[r].code = 401
         /\ Verifiable(reqs'[r].tok) /\ reqs'[r].tok \notin DOMAIN users
              => reqs'[r].code = 401
         /\ reqs'[r].tok \in DOMAIN users /\ users[reqs'[r].tok].suspendedAt
              => /\ reqs'[r].code = 403
                 /\ reqs'[r].msg = "Account suspended"
                 /\ reqs'[r].msg # "Insufficient permissions"
                 /\ reqs'[r].reason # None
                 /\ users[reqs'[r].tok].suspensionReason # None
                      => reqs'[r].reason = users[reqs'[r].tok].suspensionReason]_vars

\* A customer suspended by an admin has called requireRole(['ADMIN']) and was
\* told of the suspension and its reason, not of the role.
C16_Witness ==
  \E r \in Reqs :
    /\ reqs[r].pc = "done"
    /\ reqs[r].kind = "role"
    /\ reqs[r].tok \in DOMAIN users
    /\ users[reqs[r].tok].suspendedAt
    /\ users[reqs[r].tok].role = "CUSTOMER"
    /\ reqs[r].allowedRoles = {"ADMIN"}
    /\ reqs[r].code = 403
    /\ reqs[r].msg = "Account suspended"
    /\ reqs[r].reason = AdminSuspensionReason("L2")

\* What requireOrderAccess owes a principal of each role, for an order that exists or not.
OrderAccessByRole(q) ==
  /\ IsPrincipal(q.tok, "SUPER_ADMIN") => Authorized(q)
  /\ IsPrincipal(q.tok, "CUSTOMER") /\ q.target \in DOMAIN orders =>
       IF orders[q.target].customerId = q.tok THEN Authorized(q) ELSE Forbidden(q)
  /\ IsPrincipal(q.tok, "ADMIN") /\ q.target \in DOMAIN orders =>
       IF \E l \in DOMAIN laundries :
            laundries[l].adminId = q.tok /\ orders[q.target].laundryId = l
         THEN Authorized(q) ELSE Forbidden(q)
  /\ IsPrincipal(q.tok, "DELIVERY_GUY") => Forbidden(q)

\* C17 as stated: requireOrderAccess passes SUPER_ADMIN always, a CUSTOMER iff
\* the order is its own, an ADMIN iff the order is of its laundry, answers 403
\* to every other role, and answers 404 to every principal but SUPER_ADMIN
\* when the order does not exist.
C17_OrderAccessMissingIs404 ==
  [][\A r \in Reqs :
       GuardCall(r, "orderAccess") =>
         /\ OrderAccessByRole(reqs'[r])
         /\ ( /\ \E role \in UserRole \ {"SUPER_ADMIN"} : IsPrincipal(reqs'[r].tok, role)
              /\ reqs'[r].target \notin DOMAIN orders )
            => reqs'[r].code = 404]_vars

\* C17: requireOrderAccess passes SUPER_ADMIN always, a CUSTOMER iff the order
\* is its own, an ADMIN iff the order is of its laundry, answers 403 to every
\* other role whether the order exists or not, and answers 404 to a CUSTOMER
\* or ADMIN when the order does not exist.
C17_OrderAccess ==
  [][\A r \in Reqs :
       GuardCall(r, "orderAccess") =>
         /\ OrderAccessByRole(reqs'[r])
         /\ ( /\ \E role \in {"CUSTOMER", "ADMIN"} : IsPrincipal(reqs'[r].tok, role)
              /\ reqs'[r].target \notin DOMAIN orders )
            => reqs'[r].code = 404]_vars

\* The admin of laundry L2 was refused order o1 of laundry L1.
C17_Witness ==
  \E r \in Reqs :
    /\ reqs[r].pc = "done"
    /\ reqs[r].kind = "orderAccess"
    /\ IsPrincipal(reqs[r].tok, "ADMIN")
    /\ laundries["L2"].adminId = reqs[r].tok
    /\ reqs[r].target = "o1"
    /\ orders["o1"].laundryId = "L1"
    /\ Forbidden(reqs[r])

\* C18: requireLaundryAccess passes SUPER_ADMIN always, passes an ADMIN iff the
\* laundry asked for is the admin's own, and answers 403 to every other role.
C18_LaundryAccess ==
  [][\A r \in Reqs :
       GuardCall(r, "laundryAccess") =>
         /\ IsPrincipal(reqs'[r].tok, "SUPER_ADMIN") => Authorized(reqs'[r])
         /\ IsPrincipal(reqs'[r].tok, "ADMIN") =>
              IF /\ reqs'[r].target \in DOMAIN laundries
                 /\ laundries[reqs'[r].target].adminId = reqs'[r].tok
                THEN Authorized(reqs'[r]) ELSE Forbidden(reqs'[r])
         /\ (\E role \in {"CUSTOMER", "DELIVERY_GUY"} : IsPrincipal(reqs'[r].tok, role))
              => Forbidden(reqs'[r])]_vars

\* The admin of laundry L1 was refused laundry L2.
C18_Witness ==
  \E r \in Reqs :
    /\ reqs[r].pc = "done"
    /\ reqs[r].kind = "laundryAccess"
    /\ IsPrincipal(reqs[r].tok, "ADMIN")
    /\ laundries["L1"].adminId = reqs[r].tok
    /\ reqs[r].target = "L2"
    /\ Forbidden(reqs[r])

\* C19: requireCustomerOwnership passes a CUSTOMER iff resourceUserId is its own
\* id, and passes an ADMIN only if the customer has an order at the admin's
\* laundry: an admin of a laundry the customer has no order with, a customer
\* without any order included, is answered 403.
C19_CustomerOwnership ==
  [][\A r \in Reqs :
       GuardCall(r, "customerOwnership") =>
         /\ IsPrincipal(reqs'[r].tok, "CUSTOMER") =>
              IF reqs'[r].target = reqs'[r].tok
                THEN Authorized(reqs'[r]) ELSE Forbidden(reqs'[r])
         /\ ( /\ IsPrincipal(reqs'[r].tok, "ADMIN")
              /\ reqs'[r].target \in DOMAIN users
              /\ ~ \E o \in DOMAIN orders, l \in DOMAIN laundries :
                     /\ orders[o].customerId = reqs'[r].target
                     /\ orders[o].laundryId = l
                     /\ laundries[l].adminId = reqs'[r].tok )
            => Forbidden(reqs'[r])]_vars

\* The customer has an order at the laundry of the admin who sent the request.
OrderAtAdminsLaundry(q) ==
  \E o \in DOMAIN orders :
    /\ orders[o].customerId = q.target
    /\ orders[o].laundryId = q.user.laundryId

\* C20: an ADMIN suspends or reactivates a customer only when the customer has
\* an order at the admin's own laundry; for any other customer the request
\* fails and leaves the customer's suspendedAt and suspensionReason as they were.
C20_CustomerSuspensionScoped ==
  [][\A r \in Reqs :
       reqs[r].kind \in {"customerSuspend", "customerReactivate"} /\ reqs'[r] # reqs[r] =>
         /\ users' # users => OrderAtAdminsLaundry(reqs[r])
         /\ reqs'[r].pc = "done" /\ reqs'[r].code = 200 => OrderAtAdminsLaundry(reqs[r])]_vars

(***************************************************************************)
(* Sessions.                                                               *)
(***************************************************************************)
\* Another client holds this kind of successful response for the token r presents.
HoldsResponse(r, kind) ==
  \E s \in Reqs \ {r} :
    /\ reqs[s].pc = "done"
    /\ reqs[s].kind = kind
    /\ reqs[s].code = 200
    /\ reqs[s].tok = reqs'[r].tok

\* C21: a token returned by sign-in and presented to authenticateUser while the
\* user's row is as it was resolves to a principal with the id, email and role
\* the row had at sign-in.
C21_SigninRoundTrip ==
  [][\A r \in Reqs :
       GuardCall(r, "authenticate") =>
         \A s \in Reqs \ {r} :
           ( /\ reqs[s].pc = "done"
             /\ reqs[s].kind = "signin"
             /\ reqs[s].code = 200
             /\ reqs[s].tok = reqs'[r].tok )
           => /\ reqs'[r].code = 200
              /\ reqs'[r].user.sub = reqs[s].user.sub
              /\ reqs'[r].user.email = reqs[s].user.email
              /\ reqs'[r].user.role = reqs[s].user.role]_vars

\* C24: once sign-out has answered success to a request bearing a token,
\* authenticateUser no longer accepts that token.
C24_SignoutInvalidatesToken ==
  [][\A r \in Reqs :
       GuardCall(r, "authenticate") /\ HoldsResponse(r, "signout")
         => reqs'[r].code # 200]_vars

(***************************************************************************)
(* The guarded PATCH, the suspension and the creation of orders.           *)
(***************************************************************************)
\* C22: a status transition the guard refuses is answered with HTTP 409, and
\* the error names the status the order has (cur) and the status asked for.
C22_IllegalTransitionIs409 ==
  [][\A r \in Reqs :
       ( /\ GuardStep(r)
         /\ OffTable(r)
         /\ RequestedStatus(r) \in updateOrderSchemaStatus )
       => /\ reqs'[r].pc = "done"
          /\ reqs'[r].code = 409
          /\ reqs'[r].msg = "Invalid status transition"
          /\ reqs'[r].cur = CurrentStatus(r)]_vars

\* The guard a protected handler calls first, on the request q it received.
GateKinds ==
  {"patch", "suspend", "customerSuspend", "customerReactivate", "createOrder", "reorder"}

GateResult(q) ==
  CASE q.kind \in {"patch", "reorder"} -> requireOrderAccess(q.tok, q.target)
    [] q.kind = "suspend" -> requireRole(q.tok, {"SUPER_ADMIN"}, None, None)
    [] q.kind \in {"customerSuspend", "customerReactivate"} ->
         requireRole(q.tok, {"ADMIN"}, "true", None)
    [] q.kind = "createOrder" -> requireRole(q.tok, {"CUSTOMER"}, None, None)

\* C23: authorization is a hard gate.  When the guard of a protected handler
\* that changes state (order PATCH, laundry suspension, customer suspension and
\* reactivation, order creation and reorder) returns a failure, the handler
\* returns that failure and leaves every order, user, laundry and activity
\* unchanged; a request of such a handler writes only after its guard returned
\* a user.
C23_AuthorizationIsHardGate ==
  [][\A r \in Reqs :
       /\ (/\ reqs[r].pc = "idle"
           /\ reqs'[r].pc # "idle"
           /\ reqs'[r].kind \in GateKinds
           /\ ~GateResult(reqs'[r]).ok)
          => /\ reqs'[r].pc = "done"
             /\ reqs'[r].code = GateResult(reqs'[r]).code
             /\ reqs'[r].msg = GateResult(reqs'[r]).msg
             /\ UNCHANGED <<users, laundries, orders, activities>>
       /\ (/\ reqs'[r] # reqs[r]
           /\ reqs'[r].kind \in GateKinds
           /\ <<users, laundries, orders, activities>>' # <<users, laundries, orders, activities>>)
          => /\ reqs[r].pc \in {"update", "audit"}
             /\ reqs[r].user # NoUser]_vars

\* The guard of the order creation refused a caller with 403, after an earlier
\* request that passed its guard has written.
C23_Witness ==
  /\ reqs["r1"].pc = "done"
  /\ reqs["r1"].kind = "createOrder"
  /\ reqs["r1"].code = 403
  /\ activities # <<>>

\* C25: under any interleaving of concurrent PATCH requests on the same order,
\* once the stored status is terminal (COMPLETED, CANCELED or REFUNDED) it
\* never changes again.
C25_TerminalIsFinal ==
  [][\A o \in DOMAIN orders :
       orders[o].status \in TerminalStatus => orders'[o].status = orders[o].status]_vars

\* The activity a is the audit record of the change of order o from status
\* from to status to.
AuditsChange(a, o, from, to) ==
  /\ a.orderId = o
  /\ a.previousStatus = from
  /\ a.newStatus = to

\* C26: audit completeness.  Every change of an order's stored status, by the
\* admin PATCH or by the bulk cancellation of a laundry suspension, has an
\* audit activity attached to that order whose previousStatus is the status
\* the order had in the store immediately before the change: the step that
\* stores the status writes the activity too, or its handler goes on to write
\* exactly that activity.
C26_EveryChangeAudited ==
  [][\A o \in DOMAIN orders :
       orders'[o].status # orders[o].status
       => \/ \E i \in DOMAIN activities' \ DOMAIN activities :
               AuditsChange(activities'[i], o, orders[o].status, orders'[o].status)
          \/ \E r \in Reqs :
               /\ reqs'[r].pc = "audit"
               /\ reqs'[r].target = o
               /\ reqs'[r].cur = orders[o].status
               /\ reqs'[r].body.status = orders'[o].status]_vars

(***************************************************************************)
(* The tenant of an admin, and the state of a laundry.                     *)
(***************************************************************************)
\* C27: whenever requireRole(request, ['ADMIN'], {requireLaundry: true}) returns
\* a principal instead of an error response, that principal has a defined
\* laundryId, in a call of the guard alone and in the two handlers of
\* /api/admin/customers/[customerId] that call it so.
C27_AdminPrincipalHasLaundry ==
  [][\A r \in Reqs :
       /\ ( /\ GuardCall(r, "role")
            /\ reqs'[r].allowedRoles = {"ADMIN"}
            /\ reqs'[r].requireLaundry = "true"
            /\ reqs'[r].allowSuperAdmin = None
            /\ reqs'[r].user # NoUser )
          => reqs'[r].user.laundryId # None
       /\ ( /\ reqs[r].pc = "idle"
            /\ reqs'[r].pc = "parse"
            /\ reqs'[r].kind \in {"customerSuspend", "customerReactivate"} )
          => reqs'[r].user.laundryId # None]_vars

\* C28: at the moment an order is created, by POST /api/user/orders or by
\* either reorder handler, the status of its laundry is ACTIVE.
C28_CreatedAtActiveLaundry ==
  [][\A o \in DOMAIN orders' \ DOMAIN orders :
       laundries[orders'[o].laundryId].status = "ACTIVE"]_vars

\* The request of slot r has suspended its laundry and was answered 200.
SuspendSucceeded(r) ==
  /\ reqs[r].pc = "done"
  /\ reqs[r].kind = "suspend"
  /\ reqs[r].code = 200

\* A suspend request on a laundry that is already SUSPENDED is answered 409
\* and changes nothing.
C29_AlreadySuspendedIs409 ==
  \A r \in Reqs :
    ( /\ reqs[r].pc = "parse"
      /\ reqs[r].kind = "suspend"
      /\ reqs'[r].body # NoBody
      /\ reqs[r].laundryId \in DOMAIN laundries
      /\ laundries[reqs[r].laundryId].status = "SUSPENDED" )
    => /\ reqs'[r].pc = "done"
       /\ reqs'[r].code = 409
       /\ UNCHANGED <<users, laundries, orders, activities>>

\* A successful suspension sets the laundry to SUSPENDED and, in the same
\* step, every PENDING or CONFIRMED order of it to CANCELED, and leaves the
\* status of every other order as it was.
C29_SuspensionCancelsOpenOrders ==
  \A r \in Reqs :
    (reqs[r].kind = "suspend" /\ ~SuspendSucceeded(r) /\ SuspendSucceeded(r)')
    => /\ laundries'[reqs[r].laundryId].status = "SUSPENDED"
       /\ \A l \in DOMAIN laundries \ {reqs[r].laundryId} : laundries'[l] = laundries[l]
       /\ \A o \in DOMAIN orders :
            orders'[o].status =
              IF /\ orders[o].laundryId = reqs[r].laundryId
                 /\ orders[o].status \in {"PENDING", "CONFIRMED"}
                THEN "CANCELED" ELSE orders[o].status

\* Of two concurrent suspend requests on the same laundry at most one succeeds.
C29_AtMostOneSucceeds ==
  \A r, s \in Reqs :
    (r # s /\ SuspendSucceeded(r)' /\ SuspendSucceeded(s)')
    => reqs'[r].laundryId # reqs'[s].laundryId

\* C29: a suspend request on a laundry that is already SUSPENDED returns 409 and
\* changes nothing; a successful one sets the laundry to SUSPENDED and in the
\* same transaction cancels its PENDING and CONFIRMED orders and leaves every
\* other order's status unchanged; of two concurrent suspend requests on the
\* same ACTIVE laundry at most one succeeds.
C29_LaundrySuspension ==
  [][/\ C29_AlreadySuspendedIs409
     /\ C29_SuspensionCancelsOpenOrders
     /\ C29_AtMostOneSucceeds]_vars

(***************************************************************************)
(* The lifecycle as a whole.                                               *)
(***************************************************************************)
\* The audit records of the status changes of order o, oldest first.
StatusChangesOf(o) ==
  SelectSeq(activities, LAMBDA a : a.orderId = o /\ a.type = "ORDER_UPDATED")

\* The statuses the guard lets an order reach from the statuses of S.
RECURSIVE ReachableFrom(_)
ReachableFrom(S) ==
  LET T == S \cup UNION {validTransitions(s) : s \in S}
  IN  IF T = S THEN S ELSE ReachableFrom(T)

=============================================================================
